---------------------------- MODULE Spec2Model ----------------------------
(***************************************************************************)
(* The metered chat gateway of app/api/v1/endpoints/chat.py                *)
(* (websocket_endpoint) with the usage meter, the provider pricing, the    *)
(* model router and the provider registry it calls.                        *)
(*                                                                         *)
(* Money is counted in micro-credits (the wallet and the message cost are  *)
(* Numeric(18, 6), and calculate_cost quantizes to 0.000001), texts are    *)
(* tuples of one-character strings.                                        *)
(***************************************************************************)
EXTENDS Integers, Sequences, FiniteSets, TLC

(***************************************************************************)
(* Bounds of the model.                                                    *)
(***************************************************************************)
NumConns == 2
MaxFrames == 2
MaxChunks == 2
MaxFaults == 2

Conns == 1..NumConns

\* chat ids: connection c creates chat c; one more id is a chat of another user
ChatIds == 1..(NumConns + 1)

(***************************************************************************)
(* Texts.                                                                  *)
(***************************************************************************)
EmptyText == << >>
UserTexts == {EmptyText, <<"h", "i">>}

\* str.strip() leaves nothing: every character is white space
IsBlank(t) == \A i \in 1..Len(t) : t[i] = " "

\* math.ceil(n / 4)
CeilDiv4(n) == (n + 3) \div 4

(***************************************************************************)
(* Usage meter (services/llm/usage.py).                                    *)
(***************************************************************************)
NoUsage == [p |-> 0, c |-> 0]

total_tokens(u) == u.p + u.c

\* an estimate that rounds down
ensure_validity_floor(u, prompt_text, completion_text) ==
    LET p == IF u.p = 0 /\ Len(prompt_text) > 0
             THEN Len(prompt_text) \div 4 ELSE u.p
        c == IF u.c = 0 /\ Len(completion_text) > 0
             THEN Len(completion_text) \div 4 ELSE u.c
    IN  [p |-> p, c |-> c]

ensure_validity(u, prompt_text, completion_text) ==
    LET p == IF u.p = 0 /\ Len(prompt_text) > 0
             THEN CeilDiv4(Len(prompt_text)) ELSE u.p
        c == IF u.c = 0 /\ Len(completion_text) > 0
             THEN CeilDiv4(Len(completion_text)) ELSE u.c
    IN  [p |-> p, c |-> c]

(***************************************************************************)
(* Provider registry and pricing (services/llm/factory.py, *_adapter.py).  *)
(* Prices are in US cents per 1M tokens.                                   *)
(***************************************************************************)
OpenAIModels == {"gpt-5.2-pro", "gpt-5.2", "gpt-5-mini"}
GeminiModels == {"gemini-3-pro-preview", "gemini-2.5-pro", "gemini-3-flash-preview",
                 "gemini-2.5-flash"}
ClaudeModels == {"claude-4.5-opus", "claude-4.5-sonnet", "claude-4.5-haiku"}

\* model ids the model uses whose lower-cased name starts with no vendor prefix
UnknownModels == {"llama-3"}

\* ids with a vendor prefix that no pricing table lists
UnlistedModels == {"gpt-4o", "gemini-pro", "claude-3"}

\* model_id.startswith("gpt"), ("gemini"), ("claude")
StartsWithGpt(model) == model \in OpenAIModels \cup {"gpt-4o"}
StartsWithGemini(model) == model \in GeminiModels \cup {"gemini-pro"}
StartsWithClaude(model) == model \in ClaudeModels \cup {"claude-3"}

\* a registry that hands every other name to the OpenAI adapter
get_provider_default_openai(model) ==
    CASE StartsWithGemini(model) -> "gemini"
      [] StartsWithClaude(model) -> "claude"
      [] OTHER -> "openai"

\* LLMFactory.get_provider: the vendor family of the prefix, "none" for ValueError
get_provider(model) ==
    CASE StartsWithGpt(model) -> "openai"
      [] StartsWithGemini(model) -> "gemini"
      [] StartsWithClaude(model) -> "claude"
      [] OTHER -> "none"

\* self.pricing.get(model, <fallback>) of the adapter get_provider returns for
\* the model: gpt-5.2, gemini-3-flash-preview, claude-4.5-sonnet
pricing(model) ==
    CASE model = "gpt-5.2-pro"            -> [input |-> 500, output |-> 1500]
      [] model = "gpt-5.2"                -> [input |-> 250, output |-> 1000]
      [] model = "gpt-5-mini"             -> [input |-> 15,  output |-> 60]
      [] model = "gemini-3-pro-preview"   -> [input |-> 300, output |-> 1500]
      [] model = "gemini-2.5-pro"         -> [input |-> 188, output |-> 1250]
      [] model = "gemini-3-flash-preview" -> [input |-> 50,  output |-> 300]
      [] model = "gemini-2.5-flash"       -> [input |-> 30,  output |-> 250]
      [] model = "claude-4.5-opus"        -> [input |-> 500, output |-> 2500]
      [] model = "claude-4.5-sonnet"      -> [input |-> 300, output |-> 1500]
      [] model = "claude-4.5-haiku"       -> [input |-> 100, output |-> 500]
      [] StartsWithGemini(model)          -> [input |-> 50,  output |-> 300]
      [] StartsWithClaude(model)          -> [input |-> 300, output |-> 1500]
      [] OTHER                            -> [input |-> 250, output |-> 1000]

\* PROFIT_MARGIN (4.0) * USD_TO_CREDITS_RATE (10.0)
MarginTimesRate == 40

\* a price with a volume discount: half the margin above 2 tokens
calculate_cost_discount(u, model) ==
    LET tier == pricing(model)
        X == u.p * tier.input + u.c * tier.output
        N == X * (IF u.p + u.c > 2 THEN MarginTimesRate \div 2 ELSE MarginTimesRate)
    IN  (N + 50) \div 100

\* a cost cut off after 4 decimal places
calculate_cost_4_places(u, model) ==
    LET tier == pricing(model)
        X == u.p * tier.input + u.c * tier.output
        N == X * MarginTimesRate
    IN  (N \div 10000) * 100

\* calculate_cost in micro-credits: (p * in + c * out) cents per 1M tokens,
\* times 40, is X * 40 / 100 micro-credits; quantize(Decimal("0.000001"))
\* rounds to the nearest (the fraction is a multiple of 1/5, never a half).
calculate_cost(u, model) ==
    LET tier == pricing(model)
        X == u.p * tier.input + u.c * tier.output
        N == X * MarginTimesRate
    IN  (N + 50) \div 100

(***************************************************************************)
(* Model router (services/llm/router.py).  The texts of the gateway model  *)
(* hold none of the router's keywords, so every category scores 0 there.   *)
(***************************************************************************)
Max2(a, b) == IF a >= b THEN a ELSE b
Max3(a, b, c) == Max2(a, Max2(b, c))

ZeroScores == [coding |-> 0, reasoning |-> 0, creative |-> 0, data |-> 0]

_calculate_score(text) == ZeroScores

\* str.lower() of a preference
Lower(pref) == IF pref \in {"AUTO", "Auto"} THEN "auto" ELSE pref

\* an override that compares the preference with "auto" as it is written
determine_model_case_sensitive(s, len, user_preference) ==
    IF user_preference # "" /\ user_preference # "auto"
    THEN user_preference
    ELSE IF s.coding > 0 /\ s.coding >= Max3(s.reasoning, s.creative, s.data)
    THEN "claude-4.5-opus"
    ELSE IF (s.data > 0 /\ s.data >= Max2(s.reasoning, s.creative)) \/ len > 4000
    THEN "gemini-2.5-pro"
    ELSE IF s.reasoning > 0 /\ s.reasoning >= Max2(s.creative, s.data)
    THEN "gpt-5.2-pro"
    ELSE IF s.creative > 0
    THEN "gemini-2.5-pro"
    ELSE IF len < 150
    THEN "gemini-3-flash-preview"
    ELSE "gpt-5.2"

\* a router that asks for reasoning before it asks for code
determine_model_reasoning_first(s, len, user_preference) ==
    IF user_preference # "" /\ Lower(user_preference) # "auto"
    THEN user_preference
    ELSE IF s.reasoning > 0 /\ s.reasoning >= Max3(s.coding, s.creative, s.data)
    THEN "gpt-5.2-pro"
    ELSE IF s.coding > 0 /\ s.coding >= Max3(s.reasoning, s.creative, s.data)
    THEN "claude-4.5-opus"
    ELSE IF (s.data > 0 /\ s.data >= Max2(s.reasoning, s.creative)) \/ len > 4000
    THEN "gemini-2.5-pro"
    ELSE IF s.creative > 0
    THEN "gemini-2.5-pro"
    ELSE IF len < 150
    THEN "gemini-3-flash-preview"
    ELSE "gpt-5.2"

\* a router whose default is a model id no pricing table lists
determine_model_default_unlisted(s, len, user_preference) ==
    IF user_preference # "" /\ Lower(user_preference) # "auto"
    THEN user_preference
    ELSE IF s.coding > 0 /\ s.coding >= Max3(s.reasoning, s.creative, s.data)
    THEN "claude-4.5-opus"
    ELSE IF (s.data > 0 /\ s.data >= Max2(s.reasoning, s.creative)) \/ len > 4000
    THEN "gemini-2.5-pro"
    ELSE IF s.reasoning > 0 /\ s.reasoning >= Max2(s.creative, s.data)
    THEN "gpt-5.2-pro"
    ELSE IF s.creative > 0
    THEN "gemini-2.5-pro"
    ELSE IF len < 150
    THEN "gemini-3-flash-preview"
    ELSE "gpt-4o"

determine_model_scored(s, len, user_preference) ==
    IF user_preference # "" /\ Lower(user_preference) # "auto"
    THEN user_preference
    ELSE IF s.coding > 0 /\ s.coding >= Max3(s.reasoning, s.creative, s.data)
    THEN "claude-4.5-opus"
    ELSE IF (s.data > 0 /\ s.data >= Max2(s.reasoning, s.creative)) \/ len > 4000
    THEN "gemini-2.5-pro"
    ELSE IF s.reasoning > 0 /\ s.reasoning >= Max2(s.creative, s.data)
    THEN "gpt-5.2-pro"
    ELSE IF s.creative > 0
    THEN "gemini-2.5-pro"
    ELSE IF len < 150
    THEN "gemini-3-flash-preview"
    ELSE "gpt-5.2"

determine_model(prompt, user_preference) ==
    determine_model_scored(_calculate_score(prompt), Len(prompt), user_preference)

(***************************************************************************)
(* State.                                                                  *)
(*   env       what the environment of a run may do: which connections are *)
(*             opened, whether store and cache calls may fail, which       *)
(*             frames clients send (fixed by the initial state)            *)
(*   wallet    the user's row of the wallets table (committed state)       *)
(*   rowLock   the connection whose billing session holds the row lock of  *)
(*             an uncommitted UPDATE of the wallet row, 0 when none does   *)
(*   chats     committed rows of the chats table                           *)
(*   messages  committed rows of the messages table                        *)
(*   ledger    the debits committed by chat turns (history)                *)
(*   cache     ChatCache: per chat the list chat:<id>:history              *)
(*   clientUp  whether the client of a connection is still there           *)
(*   nfaults   the store and cache calls that have failed so far           *)
(*   call      a call of the usage meter and the pricing, or of the router, *)
(*             on arguments of its own: the arguments and what came back    *)
(*   h         per connection, the handler: its position and its locals,   *)
(*             its stream task (task) and the storage session it holds (db)*)
(***************************************************************************)
VARIABLES call, env, wallet, rowLock, chats, messages, ledger, cache, clientUp, nfaults, h

vars == <<call, env, wallet, rowLock, chats, messages, ledger, cache, clientUp, nfaults, h>>

UserId == "u1"

\* initial wallet balances, micro-credits
InitCredits == {0, 200, 1000}

\* ?model= query parameter values
Prefs == IF env.frames = "rich" THEN {"auto", "llama-3"} ELSE {"auto"}

\* fragments a backend may yield
Chunks == IF env.frames = "plain" THEN {<<"a">>} ELSE {<<"a">>, <<" ">>}

\* usage a backend may report
ReportedUsage == [p |-> 4, c |-> 2]

\* ids of uploaded files in the temporary blob store (temp_file:<id>)
Blobs == {"f1"}

Attachment(id) == [id |-> id, name |-> "a.txt"]

NoAttachments == << >>

\* a text frame as the client sends it: json is what json.loads makes of it
RawFrame(json, hasType, type, hasContent, content, attsNull, atts) ==
    [json |-> json, hasType |-> hasType, type |-> type,
     hasContent |-> hasContent, content |-> content,
     attsNull |-> attsNull, atts |-> atts]

InvalidJsonFrame == RawFrame("invalid", FALSE, "", FALSE, EmptyText, FALSE, NoAttachments)
NonObjectFrame == RawFrame("nonobject", FALSE, "", FALSE, EmptyText, FALSE, NoAttachments)
NoContentFrame == RawFrame("object", TRUE, "ping", FALSE, EmptyText, FALSE, NoAttachments)
OtherTypeFrame == RawFrame("object", TRUE, "ping", TRUE, EmptyText, FALSE, NoAttachments)

UserMessageFrame(text, attsNull, atts) ==
    RawFrame("object", TRUE, "user_message", TRUE, text, attsNull, atts)

PlainFrames == {UserMessageFrame(<<"h", "i">>, FALSE, NoAttachments)}

AttachFrames ==
    {UserMessageFrame(<<"h", "i">>, FALSE, a) : a \in {NoAttachments, <<Attachment("f1")>>}}

RichFrames ==
    {InvalidJsonFrame, NonObjectFrame, NoContentFrame, OtherTypeFrame}
    \cup {UserMessageFrame(t, FALSE, a) :
             t \in UserTexts,
             a \in {NoAttachments, <<Attachment("f1")>>, <<Attachment("f2")>>}}
    \cup {UserMessageFrame(<<"h", "i">>, TRUE, NoAttachments)}

Frames ==
    CASE env.frames = "rich" -> RichFrames
      [] env.frames = "attach" -> AttachFrames
      [] OTHER -> PlainFrames

\* outcomes of a store or cache call: TRUE it returns, FALSE it raises
Oks == IF env.faults /\ nfaults < MaxFaults THEN BOOLEAN ELSE {TRUE}

Failed(ok) == IF ok THEN 0 ELSE 1

\* server -> client frames: type, event or message, numeric payload
Frame(type, what, v) == [type |-> type, what |-> what, v |-> v]

ErrorFrame(message) == Frame("error", message, 0)
SystemFrame(event, v) == Frame("system", event, v)
ContentFrame(n) == Frame("content", "delta", n)

\* safe_websocket_send: the frame is delivered when the client is there
Deliver(o, up, frame) == IF up THEN Append(o, frame) ELSE o

InitHandler ==
    [pc |-> "idle", gate |-> "none", closeCode |-> 0, token |-> "", pref |-> "auto",
     frame_kind |-> "none", reported |-> FALSE, task |-> "none", db |-> "closed",
     is_connected |-> TRUE, current_chat_id |-> 0, nframes |-> 0,
     user_text |-> EmptyText, attachments_null |-> FALSE,
     raw_attachments |-> NoAttachments, llm_attachments |-> NoAttachments,
     selected_model |-> "", full_response |-> EmptyText, nchunks |-> 0,
     usage |-> NoUsage, total_cost |-> 0, new_credits |-> 0, gen_end |-> "none", out |-> << >>,
     conversation_history |-> << >>, store_queried |-> FALSE, frame_type |-> ""]

InitShared ==
    /\ wallet = [exists |-> env.wallet, credits |-> env.credits0]
    /\ rowLock = 0
    /\ chats = {}
    /\ messages = {}
    /\ ledger = {}
    /\ cache = [c \in ChatIds |-> << >>]
    /\ clientUp = [c \in Conns |-> TRUE]
    /\ nfaults = 0
    /\ h = [c \in Conns |-> InitHandler]

\* the wallet a run starts with: none, or one with an initial balance
Wallets == {[wallet |-> FALSE, credits0 |-> 0]} \cup [wallet : {TRUE}, credits0 : InitCredits]

Env(faults, conns, frames) ==
    {[faults |-> faults, conns |-> conns, frames |-> frames,
      wallet |-> w.wallet, credits0 |-> w.credits0, chat_id |-> 0,
      max_frames |-> MaxFrames] : w \in Wallets}

\* no function is called on its own
NoCall == [fn |-> "none"]

Init ==
    /\ env \in Env(FALSE, {1}, "rich")
    /\ InitShared
    /\ call = NoCall

(***************************************************************************)
(* The handler, websocket_endpoint.  Positions (pc):                       *)
(*   idle     accepted, before the auth and wallet gate                    *)
(*   recv     at websocket.receive_text()                                  *)
(*   chat     lazy chat creation          route    routing, attachments    *)
(*   persist  user message, cache add                                     *)
(*   history  history read, attachments, provider lookup                  *)
(*   gen      waiting on the stream task                                   *)
(*   debit    UPDATE wallets              commit   its commit              *)
(*   settle   balance re-read, AI message, cache, cost frame               *)
(*   closed   the handler has ended                                        *)
(***************************************************************************)

\* the outer "except Exception": safe_websocket_close(websocket, code=1011)
Crash(s) == [s EXCEPT !.pc = "closed", !.closeCode = 1011, !.db = "closed"]

\* is_connected = False; break
Leave(s) == [s EXCEPT !.pc = "closed", !.is_connected = FALSE, !.db = "closed"]

\* a connect-time rejection: safe_websocket_close(websocket, code=1008)
Reject(s, why) == [s EXCEPT !.pc = "closed", !.closeCode = 1008, !.gate = why]

Tokens == {"", "bad", "good"}

\* a gate that lets a wallet at exactly 0 through
InsufficientCreditsBelowZero(w) == ~w.exists \/ w.credits < 0

\* line 254: not wallet or wallet.credits <= Decimal("0.0")
InsufficientCredits(w) == ~w.exists \/ w.credits <= 0

\* a lookup that does not look at the owner
existing_chat_of_anyone(chat_id, user_id) == \E ch \in chats : ch.id = chat_id

\* lines 261-271: the chat_id parameter names a chat of the user (a malformed
\* id, ValueError, names none)
existing_chat(chat_id, user_id) ==
    \E ch \in chats : ch.id = chat_id /\ ch.owner = user_id

\* lines 233-274: token, identity, wallet gate, chat loading
Connect(c) ==
    /\ c \in env.conns
    /\ h[c].pc = "idle"
    /\ \E token \in Tokens, p \in Prefs, ok \in Oks :
         LET s == [h[c] EXCEPT !.token = token] IN
         /\ h' = [h EXCEPT ![c] =
                 IF token = ""
                 THEN Reject(s, "missing_token")
                 ELSE IF ~ok
                 THEN [Crash(s) EXCEPT !.gate = "store_error"]
                 ELSE IF token = "bad"
                 THEN Reject(s, "invalid_token")
                 ELSE IF InsufficientCredits(wallet)
                 THEN [Reject(s, "insufficient_credits") EXCEPT
                         !.out = Deliver(s.out, clientUp[c], ErrorFrame("Insufficient credits."))]
                 ELSE [s EXCEPT !.pc = "recv", !.gate = "passed", !.pref = p,
                                !.current_chat_id = IF existing_chat(env.chat_id, UserId)
                                                     THEN env.chat_id ELSE 0]]
         /\ nfaults' = nfaults + (IF token = "" THEN 0 ELSE Failed(ok))
    /\ UNCHANGED <<call, env, wallet, rowLock, chats, messages, ledger, cache, clientUp>>

\* the client goes away
ClientDrop(c) ==
    /\ c \in env.conns
    /\ h[c].pc # "closed"
    /\ clientUp[c]
    /\ clientUp' = [clientUp EXCEPT ![c] = FALSE]
    /\ UNCHANGED <<call, env, wallet, rowLock, chats, messages, ledger, cache, nfaults, h>>

\* the locals of a new loop iteration
NextFrame(s) ==
    [s EXCEPT !.nframes = @ + 1, !.out = << >>,
              !.user_text = EmptyText, !.attachments_null = FALSE,
              !.raw_attachments = NoAttachments, !.llm_attachments = NoAttachments,
              !.full_response = EmptyText, !.nchunks = 0, !.usage = NoUsage,
              !.reported = FALSE, !.gen_end = "none", !.task = "none",
              !.conversation_history = << >>, !.store_queried = FALSE,
              !.frame_type = ""]

\* UserMessagePayload(**payload_data) raises ValidationError
SchemaViolation(f) == ~f.hasType \/ ~f.hasContent

\* what lines 283-296 make of a frame
FrameKind(f) ==
    IF f.json = "invalid" THEN "invalid_json"
    ELSE IF f.json # "object" THEN "not_an_object"
    ELSE IF SchemaViolation(f) THEN "schema_violation"
    ELSE IF f.type # "user_message" THEN "other_type"
    ELSE "user_message"

\* the "type" member of a frame that is a JSON object, "" when there is none
TypeOf(f) == IF f.json = "object" /\ f.hasType THEN f.type ELSE ""

\* lines 277-296: receive one frame and parse it
Receive(c) ==
    /\ h[c].pc = "recv"
    /\ h[c].nframes < env.max_frames \/ ~clientUp[c]
    /\ \E f \in Frames :
         LET s == [NextFrame(h[c]) EXCEPT !.frame_kind = FrameKind(f),
                                          !.frame_type = TypeOf(f)] IN
         h' = [h EXCEPT ![c] =
                 IF ~clientUp[c]
                 THEN Leave(h[c])
                 ELSE IF s.frame_kind = "invalid_json"
                 THEN [s EXCEPT !.out = Append(@, ErrorFrame("Invalid message format"))]
                 ELSE IF s.frame_kind = "not_an_object"
                 THEN Crash(s)
                 ELSE IF s.frame_kind = "schema_violation"
                 THEN [s EXCEPT !.out = Append(@, ErrorFrame("Invalid message format"))]
                 ELSE IF s.frame_kind = "other_type"
                 THEN s
                 ELSE [s EXCEPT !.user_text = f.content,
                                !.attachments_null = f.attsNull,
                                !.raw_attachments = f.atts,
                                !.db = "turn",
                                !.pc = IF s.current_chat_id = 0 THEN "chat" ELSE "route"]]
    /\ UNCHANGED <<call, env, wallet, rowLock, chats, messages, ledger, cache, clientUp, nfaults>>

\* lines 300-331: lazy chat creation
CreateChat(c) ==
    /\ h[c].pc = "chat"
    /\ \E ok \in Oks :
         LET s == h[c] IN
         /\ chats' = IF ok THEN chats \cup {[id |-> c, owner |-> UserId]} ELSE chats
         /\ h' = [h EXCEPT ![c] =
                 IF ~ok
                 THEN [s EXCEPT !.pc = "recv", !.db = "closed",
                                !.out = Deliver(@, clientUp[c], ErrorFrame("Failed to create chat"))]
                 ELSE IF ~clientUp[c]
                 THEN [Leave(s) EXCEPT !.current_chat_id = c]
                 ELSE [s EXCEPT !.current_chat_id = c, !.pc = "route",
                                !.out = Append(@, SystemFrame("chat_id", c))]]
         /\ nfaults' = nfaults + Failed(ok)
    /\ UNCHANGED <<call, env, wallet, rowLock, messages, ledger, cache, clientUp>>

\* cache.get_temp_file for every attachment that carries an id
RECURSIVE Resolve(_)
Resolve(atts) ==
    IF atts = << >> THEN << >>
    ELSE IF Head(atts).id # "" /\ Head(atts).id \in Blobs
         THEN <<Head(atts)>> \o Resolve(Tail(atts))
         ELSE Resolve(Tail(atts))

HasReference(atts) == \E i \in 1..Len(atts) : atts[i].id # ""

\* lines 333-361: routing, route frame, attachment resolution
Route(c) ==
    /\ h[c].pc = "route"
    /\ \E ok \in Oks :
         LET s == h[c]
             m == determine_model(s.user_text, s.pref)
             lookup == clientUp[c] /\ ~s.attachments_null /\ HasReference(s.raw_attachments)
         IN
         /\ nfaults' = nfaults + (IF lookup THEN Failed(ok) ELSE 0)
         /\ h' = [h EXCEPT ![c] =
                 IF ~clientUp[c]
                 THEN [Leave(s) EXCEPT !.selected_model = m]
                 ELSE IF lookup /\ ~ok
                 THEN [Crash(s) EXCEPT !.selected_model = m,
                                       !.out = Append(@, SystemFrame("route", 0))]
                 ELSE [s EXCEPT !.selected_model = m, !.pc = "persist",
                                !.out = Append(@, SystemFrame("route", 0)),
                                !.llm_attachments =
                                    IF s.attachments_null THEN NoAttachments
                                    ELSE Resolve(s.raw_attachments)]]
    /\ UNCHANGED <<call, env, wallet, rowLock, chats, messages, ledger, cache, clientUp>>

\* rows of the messages table
UserMessage(c, s) ==
    [chat |-> s.current_chat_id, role |-> "user", conn |-> c, turn |-> s.nframes,
     content |-> s.user_text, model |-> s.selected_model, cost |-> 0, tokens |-> 0,
     n |-> 1]

AiMessage(c, s) ==
    [chat |-> s.current_chat_id, role |-> "ai", conn |-> c, turn |-> s.nframes,
     content |-> s.full_response, model |-> s.selected_model,
     cost |-> s.total_cost, tokens |-> total_tokens(s.usage),
     n |-> Cardinality({m \in messages :
                          m.role = "ai" /\ m.conn = c /\ m.turn = s.nframes}) + 1]

\* an entry that no turn of the model has written
NoTurn == <<0, 0>>

\* the JSON entry of the cache list; "by" is a history variable, the
\* connection and turn that wrote a user entry
CacheEntry(role, content) == [role |-> role, content |-> content, by |-> NoTurn]

WrittenBy(entry, c, turn) == [entry EXCEPT !.by = <<c, turn>>]

HistoryLimit == 10

\* ChatMessage.from_text: one text block, no attachments
from_text(role, text) ==
    [role |-> role, content |-> text, attachments |-> NoAttachments, by |-> NoTurn]

\* a read that returns the whole list
get_history_whole_list(list) ==
    [i \in 1..Len(list) |->
        [from_text(list[i].role, list[i].content) EXCEPT !.by = list[i].by]]

\* cache.get_history: lrange(key, -limit, -1), every entry through from_text
get_history(list) ==
    LET raw_messages == IF Len(list) <= HistoryLimit THEN list
                        ELSE SubSeq(list, Len(list) - HistoryLimit + 1, Len(list))
    IN  [i \in 1..Len(raw_messages) |->
            [from_text(raw_messages[i].role, raw_messages[i].content)
                EXCEPT !.by = raw_messages[i].by]]

\* Message.created_at within one chat: turn by turn, the user message first
created_at(m) == 8 * m.turn + (IF m.role = "user" THEN 0 ELSE m.n)

RECURSIVE Ascending(_)
Ascending(rows) ==
    IF rows = {} THEN << >>
    ELSE LET first == CHOOSE m \in rows : \A o \in rows : created_at(m) <= created_at(o)
         IN  <<first>> \o Ascending(rows \ {first})

\* lines 401-410: the newest 10 rows of the chat, oldest first, through from_text
store_history(chat, rows) ==
    LET all == Ascending({m \in rows : m.chat = chat})
        msgs == IF Len(all) <= HistoryLimit THEN all
                ELSE SubSeq(all, Len(all) - HistoryLimit + 1, Len(all))
    IN  [i \in 1..Len(msgs) |->
            [from_text(msgs[i].role, msgs[i].content)
                EXCEPT !.by = <<msgs[i].conn, msgs[i].turn>>]]

\* lines 422-432: the current message with its resolved attachments replaces
\* the last entry when that is the same user text, else it is appended
WithLatest(history, user_text, attachments, own) ==
    LET latest_msg == [from_text("user", user_text) EXCEPT !.attachments = attachments,
                                                          !.by = own]
        n == Len(history)
    IN  IF n > 0 /\ history[n].role = "user" /\ history[n].content = user_text
        THEN [history EXCEPT ![n] = latest_msg]
        ELSE Append(history, latest_msg)

\* the turn's session is held into the wait for the stream
EnterGenerationHoldingSession(s) == [s EXCEPT !.pc = "gen", !.task = "running"]

\* lines 432-458: the "async with" of line 299 ends, the session is released;
\* the provider is looked up and stream_response is started as a task
EnterGeneration(s) == [s EXCEPT !.pc = "gen", !.task = "running", !.db = "closed"]

\* lines 363-392: the user message is committed and appended to the cache list
PersistUser(c) ==
    /\ h[c].pc = "persist"
    /\ \E okCommit \in Oks, okAdd \in Oks :
         LET s == h[c]
             chat == s.current_chat_id
         IN
         /\ messages' = IF okCommit THEN messages \cup {UserMessage(c, s)} ELSE messages
         /\ cache' = IF okAdd
                     THEN [cache EXCEPT ![chat] =
                             Append(@, WrittenBy(CacheEntry("user", s.user_text), c, s.nframes))]
                     ELSE cache
         /\ h' = [h EXCEPT ![c] =
                 [s EXCEPT !.pc = "history",
                           !.out = IF okCommit THEN @
                                   ELSE Deliver(@, clientUp[c],
                                                ErrorFrame("Failed to save message"))]]
         /\ nfaults' = nfaults + Failed(okCommit) + Failed(okAdd)
    /\ UNCHANGED <<call, env, wallet, rowLock, chats, ledger, clientUp>>

\* lines 394-436: history from the cache or else from the store, attachments,
\* current message, provider lookup
FetchHistory(c) ==
    /\ h[c].pc = "history"
    /\ \E okGet \in Oks, okSelect \in Oks :
         LET s == h[c]
             chat == s.current_chat_id
             history == IF okGet THEN get_history(cache[chat]) ELSE << >>
             fetched == IF history = << >> THEN store_history(chat, messages) ELSE history
             s1 == [s EXCEPT !.store_queried = (history = << >>),
                             !.conversation_history =
                                 IF (history = << >> /\ ~okSelect) \/ s.attachments_null
                                 THEN << >>
                                 ELSE WithLatest(fetched, s.user_text, s.llm_attachments,
                                                 <<c, s.nframes>>)]
         IN
         /\ h' = [h EXCEPT ![c] =
                 IF history = << >> /\ ~okSelect
                 THEN Crash(s1)
                 ELSE IF s.attachments_null
                 THEN Crash(s1)
                 ELSE IF get_provider(s.selected_model) = "none"
                 THEN Crash(s1)
                 ELSE EnterGeneration(s1)]
         /\ nfaults' = nfaults + Failed(okGet)
                                + (IF history = << >> THEN Failed(okSelect) ELSE 0)
    /\ UNCHANGED <<call, env, wallet, rowLock, chats, messages, ledger, cache, clientUp>>

(***************************************************************************)
(* Generation: stream_response as a task, awaited with wait_for(60).       *)
(***************************************************************************)

\* provider.generate_stream may have set usage before it yields or ends; a
\* report sets both counts
Reported(u, rep) == IF rep THEN ReportedUsage ELSE u

\* a validity check that gives the turn up once the client is gone
ValidityCheckLeavesWhenDrained(s) ==
    LET u == ensure_validity(s.usage, s.user_text, s.full_response) IN
    IF ~s.is_connected THEN [Leave(s) EXCEPT !.usage = u]
    ELSE IF IsBlank(s.full_response) /\ total_tokens(u) = 0
    THEN [s EXCEPT !.usage = u, !.pc = "recv"]
    ELSE [s EXCEPT !.usage = u, !.pc = "debit", !.db = "billing"]

\* lines 484-489: usage fallback, then the no-op check
ValidityCheck(s) ==
    LET u == ensure_validity(s.usage, s.user_text, s.full_response) IN
    IF IsBlank(s.full_response) /\ total_tokens(u) = 0
    THEN IF ~s.is_connected THEN [Leave(s) EXCEPT !.usage = u]
         ELSE [s EXCEPT !.usage = u, !.pc = "recv"]
    ELSE [s EXCEPT !.usage = u, !.pc = "debit", !.db = "billing"]

\* lines 443-458: one fragment of the running task: accumulate, forward; a
\* failed send drains
GenChunk(c) ==
    /\ h[c].task = "running"
    /\ h[c].nchunks < MaxChunks
    /\ \E chunk \in Chunks, rep \in BOOLEAN :
         LET s == [h[c] EXCEPT !.full_response = @ \o chunk, !.nchunks = @ + 1,
                               !.usage = Reported(@, rep), !.reported = @ \/ rep]
         IN
         h' = [h EXCEPT ![c] =
                 IF clientUp[c]
                 THEN [s EXCEPT !.out = Append(@, ContentFrame(s.nchunks))]
                 ELSE ValidityCheck([s EXCEPT !.is_connected = FALSE, !.task = "done",
                                              !.gen_end = "send_failed"])]
    /\ UNCHANGED <<call, env, wallet, rowLock, chats, messages, ledger, cache, clientUp, nfaults>>

\* the stream ends; wait_for returns
GenEnd(c) ==
    /\ h[c].pc = "gen"
    /\ \E rep \in BOOLEAN :
         h' = [h EXCEPT ![c] =
                 ValidityCheck([@ EXCEPT !.usage = Reported(@, rep), !.reported = @ \/ rep,
                                         !.task = "done", !.gen_end = "done"])]
    /\ UNCHANGED <<call, env, wallet, rowLock, chats, messages, ledger, cache, clientUp, nfaults>>

\* a timeout that reports the error and bills while the task keeps running
GenTimeoutKeepsTaskRunning(c) ==
    /\ h[c].pc = "gen"
    /\ h' = [h EXCEPT ![c] =
            ValidityCheck(
              [@ EXCEPT !.gen_end = "timeout",
                        !.out = Deliver(@, clientUp[c], ErrorFrame("Error: Timeout"))])]
    /\ UNCHANGED <<call, env, wallet, rowLock, chats, messages, ledger, cache, clientUp, nfaults>>

\* a timeout that reports the error and goes back to the receive loop
GenTimeoutSkipsBilling(c) ==
    /\ h[c].pc = "gen"
    /\ h' = [h EXCEPT ![c] =
            [@ EXCEPT !.gen_end = "timeout", !.task = "cancelled", !.pc = "recv",
                      !.out = Deliver(@, clientUp[c], ErrorFrame("Error: Timeout"))]]
    /\ UNCHANGED <<call, env, wallet, rowLock, chats, messages, ledger, cache, clientUp, nfaults>>

\* lines 469-472: asyncio.TimeoutError; the task is cancelled while it waits
\* for the backend (mid = FALSE) or while a fragment it has accumulated is
\* being sent (mid = TRUE)
GenTimeout(c) ==
    /\ h[c].pc = "gen"
    /\ \E mid \in BOOLEAN, chunk \in Chunks :
         /\ mid => h[c].nchunks < MaxChunks
         /\ h' = [h EXCEPT ![c] =
                 ValidityCheck(
                   [@ EXCEPT !.full_response = IF mid THEN @ \o chunk ELSE @,
                             !.nchunks = IF mid THEN @ + 1 ELSE @,
                             !.gen_end = "timeout", !.task = "cancelled",
                             !.out = Deliver(@, clientUp[c], ErrorFrame("Error: Timeout"))])]
    /\ UNCHANGED <<call, env, wallet, rowLock, chats, messages, ledger, cache, clientUp, nfaults>>

\* lines 476-482: the backend raises
GenError(c) ==
    /\ h[c].pc = "gen"
    /\ LET s == [h[c] EXCEPT !.gen_end = "error", !.task = "done",
                             !.out = Deliver(@, clientUp[c], ErrorFrame("Error: backend"))]
       IN
       h' = [h EXCEPT ![c] =
               IF s.full_response = EmptyText
               THEN [s EXCEPT !.pc = "recv"]
               ELSE ValidityCheck(s)]
    /\ UNCHANGED <<call, env, wallet, rowLock, chats, messages, ledger, cache, clientUp, nfaults>>

\* lines 473-475: asyncio.CancelledError, the handler's task is cancelled
GenCancelled(c) ==
    /\ h[c].pc = "gen"
    /\ h' = [h EXCEPT ![c] =
            ValidityCheck([@ EXCEPT !.gen_end = "cancelled", !.task = "cancelled",
                                    !.is_connected = FALSE])]
    /\ UNCHANGED <<call, env, wallet, rowLock, chats, messages, ledger, cache, clientUp, nfaults>>

(***************************************************************************)
(* Billing, lines 491-530, in a session of its own.  The UPDATE            *)
(*   UPDATE wallets SET credits = credits - :cost WHERE user_id = :id      *)
(* locks the row until its transaction ends: a second UPDATE of the row    *)
(* waits for the first one's commit or rollback and then works on the      *)
(* committed value.                                                        *)
(***************************************************************************)

\* lines 532-536: cache.add_message of the answer, failures ignored
CacheAnswer(s, ok) ==
    IF ok
    THEN [cache EXCEPT ![s.current_chat_id] = Append(@, CacheEntry("ai", s.full_response))]
    ELSE cache

\* a turn that ends at the receive loop whether the client is there or not
CostFrameKeepsReceiving(c, s) ==
    [s EXCEPT !.pc = "recv", !.db = "closed",
              !.out = Deliver(@, clientUp[c], SystemFrame("cost", s.total_cost))]

\* a turn that ends without telling its cost
CostFrameSilent(c, s) ==
    IF s.is_connected THEN [s EXCEPT !.pc = "recv", !.db = "closed"] ELSE Leave(s)

\* lines 538-548: the cost frame, then leave the loop when draining
CostFrame(c, s) ==
    IF s.is_connected
    THEN [s EXCEPT !.pc = "recv", !.db = "closed",
                   !.out = Deliver(@, clientUp[c], SystemFrame("cost", s.total_cost))]
    ELSE Leave(s)

\* lines 494-502 once the row is free: the cost, the UPDATE statement; when it
\* raises, the handler logs and goes on with lines 532-548
DebitStatement(c) ==
    /\ h[c].pc = "debit"
    /\ \E ok \in Oks, okCache \in Oks :
         LET s == [h[c] EXCEPT !.total_cost = calculate_cost(h[c].usage, h[c].selected_model)]
         IN
         /\ rowLock' = IF ok THEN c ELSE rowLock
         /\ h' = [h EXCEPT ![c] =
                 IF ok
                 THEN [s EXCEPT !.new_credits = wallet.credits - s.total_cost, !.pc = "commit"]
                 ELSE CostFrame(c, s)]
         /\ cache' = IF ok THEN cache ELSE CacheAnswer(s, okCache)
         /\ nfaults' = nfaults + Failed(ok) + (IF ok THEN 0 ELSE Failed(okCache))
    /\ UNCHANGED <<call, env, wallet, chats, messages, ledger, clientUp>>

\* a debit that reads the balance without waiting for the row
DebitExecuteUnlocked(c) == DebitStatement(c)

\* the UPDATE waits while another transaction holds the row
DebitExecute(c) ==
    /\ rowLock = 0
    /\ DebitStatement(c)

LedgerEntry(c, s) ==
    [conn |-> c, turn |-> s.nframes, amount |-> s.total_cost,
     n |-> Cardinality({e \in ledger : e.conn = c /\ e.turn = s.nframes}) + 1]

\* line 503: safe_db_commit of the debit; a failed commit is rolled back
DebitCommit(c) ==
    /\ h[c].pc = "commit"
    /\ \E ok \in Oks :
         LET s == h[c] IN
         /\ wallet' = IF ok THEN [wallet EXCEPT !.credits = s.new_credits] ELSE wallet
         /\ ledger' = IF ok THEN ledger \cup {LedgerEntry(c, s)} ELSE ledger
         /\ rowLock' = 0
         /\ h' = [h EXCEPT ![c] = [s EXCEPT !.pc = "settle"]]
         /\ nfaults' = nfaults + Failed(ok)
    /\ UNCHANGED <<call, env, chats, messages, cache, clientUp>>

\* an overdraft answered with an error frame and the end of the connection
BalanceCheckClosing(c, s, okSelect) ==
    IF okSelect /\ wallet.exists /\ wallet.credits < 0
    THEN [s EXCEPT !.out = Deliver(@, clientUp[c], ErrorFrame("Insufficient credits.")),
                   !.is_connected = FALSE, !.closeCode = 1008]
    ELSE s

\* lines 505-514: the balance is read again, a warning is sent below 0
BalanceCheck(c, s, okSelect) ==
    IF okSelect /\ wallet.exists /\ wallet.credits < 0
    THEN [s EXCEPT !.out = Deliver(@, clientUp[c], SystemFrame("warning", 0))]
    ELSE s

\* lines 505-548: the balance check, the AI message is saved, the answer
\* cached, the cost frame sent
Settle(c) ==
    /\ h[c].pc = "settle"
    /\ \E okSelect \in Oks, okSave \in Oks, okCache \in Oks :
         LET s == h[c]
             s1 == BalanceCheck(c, s, okSelect)
         IN
         /\ messages' = IF okSelect /\ okSave THEN messages \cup {AiMessage(c, s)}
                         ELSE messages
         /\ cache' = CacheAnswer(s, okCache)
         /\ h' = [h EXCEPT ![c] = CostFrame(c, s1)]
         /\ nfaults' = nfaults + Failed(okSelect) + Failed(okCache)
                                + (IF okSelect THEN Failed(okSave) ELSE 0)
    /\ UNCHANGED <<call, env, wallet, rowLock, chats, ledger, clientUp>>

Next ==
    \E c \in Conns :
        \/ Connect(c)
        \/ ClientDrop(c)
        \/ Receive(c)
        \/ CreateChat(c)
        \/ Route(c)
        \/ PersistUser(c)
        \/ FetchHistory(c)
        \/ GenChunk(c)
        \/ GenEnd(c)
        \/ GenTimeout(c)
        \/ GenError(c)
        \/ GenCancelled(c)
        \/ DebitExecute(c)
        \/ DebitCommit(c)
        \/ Settle(c)

\* one connection, every kind of frame, store and cache healthy
Spec == Init /\ [][Next]_vars

\* one connection, every kind of frame, store and cache calls may fail
InitFaulty ==
    /\ env \in Env(TRUE, {1}, "attach")
    /\ InitShared
    /\ call = NoCall

SpecFaulty == InitFaulty /\ [][Next]_vars

\* every connection opened, on one wallet, plain user messages, clients and
\* backends that stay up
NextConcurrent ==
    \E c \in Conns :
        \/ Connect(c)
        \/ Receive(c)
        \/ CreateChat(c)
        \/ Route(c)
        \/ PersistUser(c)
        \/ FetchHistory(c)
        \/ GenChunk(c)
        \/ GenEnd(c)
        \/ DebitExecute(c)
        \/ DebitCommit(c)
        \/ Settle(c)

InitConcurrent ==
    /\ env \in Env(FALSE, Conns, "plain")
    /\ InitShared
    /\ call = NoCall

SpecConcurrent == InitConcurrent /\ [][NextConcurrent]_vars

(***************************************************************************)
(* The usage meter and the pricing on arguments of their own: the calls    *)
(* lines 485-494 of the handler make, usage.ensure_validity(user_text,     *)
(* full_response), the no-op test, provider.calculate_cost(usage, model),  *)
(* for every usage, pair of texts and model id of the bounded sets.        *)
(***************************************************************************)
MaxTokens == 2
MaxTextLen == 5

\* a text of n characters
TextOfLen(n) == [i \in 1..n |-> "x"]

Texts == {TextOfLen(n) : n \in 0..MaxTextLen}
Usages == [p : 0..MaxTokens, c : 0..MaxTokens]

\* the ids get_provider accepts
ModelIds == OpenAIModels \cup GeminiModels \cup ClaudeModels \cup UnlistedModels

\* no gateway runs beside the calls
NoGateway ==
    /\ env = [faults |-> FALSE, conns |-> {}, frames |-> "plain",
              wallet |-> FALSE, credits0 |-> 0]
    /\ InitShared

\* arg is the usage the backend left, usage the Usage object, once its value
\* after the first ensure_validity
InitUsage ==
    /\ NoGateway
    /\ call \in {[fn |-> "usage", arg |-> u, prompt_text |-> p, completion_text |-> t,
                   model |-> m, usage |-> u, once |-> u, applied |-> 0,
                   billed |-> FALSE, cost |-> 0] :
                     u \in Usages, p \in Texts, t \in Texts, m \in ModelIds}

\* usage.ensure_validity(prompt_text, completion_text), a first and a second time
ApplyEnsureValidity ==
    /\ call.fn = "usage"
    /\ call.applied < 2
    /\ ~call.billed
    /\ LET u == ensure_validity(call.usage, call.prompt_text, call.completion_text) IN
       call' = [call EXCEPT !.usage = u,
                            !.once = IF call.applied = 0 THEN u ELSE @,
                            !.applied = @ + 1]
    /\ UNCHANGED <<env, wallet, rowLock, chats, messages, ledger, cache, clientUp, nfaults, h>>

\* lines 486-494: past the no-op test, provider.calculate_cost(usage, model)
ApplyCalculateCost ==
    /\ call.fn = "usage"
    /\ call.applied >= 1
    /\ ~call.billed
    /\ ~(IsBlank(call.completion_text) /\ total_tokens(call.usage) = 0)
    /\ call' = [call EXCEPT !.billed = TRUE,
                            !.cost = calculate_cost(call.usage, call.model)]
    /\ UNCHANGED <<env, wallet, rowLock, chats, messages, ledger, cache, clientUp, nfaults, h>>

NextUsage == ApplyEnsureValidity \/ ApplyCalculateCost

SpecUsage == InitUsage /\ [][NextUsage]_vars

(***************************************************************************)
(* The router on arguments of its own: ModelRouter.determine_model for     *)
(* every combination of the four category scores _calculate_score can      *)
(* return up to MaxScore, text lengths around the two thresholds, and      *)
(* preferences; "" stands for a missing and for an empty preference (both  *)
(* are falsy).                                                             *)
(***************************************************************************)
MaxScore == 2

Scores == [coding : 0..MaxScore, reasoning : 0..MaxScore,
           creative : 0..MaxScore, data : 0..MaxScore]

Lengths == {0, 50, 149, 150, 4000, 4001}

Preferences == {"", "auto", "AUTO", "Auto", "gpt-5.2", "llama-3"}

InitRouter ==
    /\ NoGateway
    /\ call \in {[fn |-> "router", scores |-> s, len |-> n, preference |-> p,
                   result |-> "", first |-> "", calls |-> 0] :
                     s \in Scores, n \in Lengths, p \in Preferences}

\* ModelRouter.determine_model(prompt, user_preference), a first and a second time
ApplyDetermineModel ==
    /\ call.fn = "router"
    /\ call.calls < 2
    /\ LET m == determine_model_scored(call.scores, call.len, call.preference) IN
       call' = [call EXCEPT !.result = m,
                            !.first = IF call.calls = 0 THEN m ELSE @,
                            !.calls = @ + 1]
    /\ UNCHANGED <<env, wallet, rowLock, chats, messages, ledger, cache, clientUp, nfaults, h>>

NextRouter == ApplyDetermineModel

SpecRouter == InitRouter /\ [][NextRouter]_vars


(***************************************************************************)
(* What the states say about turns.                                        *)
(***************************************************************************)
RECURSIVE SumAmounts(_)
SumAmounts(S) ==
    IF S = {} THEN 0
    ELSE LET e == CHOOSE x \in S : TRUE IN e.amount + SumAmounts(S \ {e})

\* the total the committed debits of chat turns took from the wallet
TotalDebited == SumAmounts(ledger)

RECURSIVE SumCosts(_)
SumCosts(S) ==
    IF S = {} THEN 0
    ELSE LET m == CHOOSE x \in S : TRUE IN m.cost + SumCosts(S \ {m})

\* the committed debits and the persisted AI messages of turn t of connection c
Debits(c, t) == {e \in ledger : e.conn = c /\ e.turn = t}
AiMessages(c, t) == {m \in messages : m.role = "ai" /\ m.conn = c /\ m.turn = t}
SavedFor(c, t) == {m \in messages : m.conn = c /\ m.turn = t}

\* the handler is through with the user_message frame it received last
TurnDone(c) == h[c].pc \in {"recv", "closed"} /\ h[c].frame_kind = "user_message"

\* no handler is inside a turn
Quiescent == \A c \in env.conns : h[c].pc \in {"idle", "recv", "closed"}

HasFrame(o, frame) == \E i \in 1..Len(o) : o[i] = frame
HasFrameOfType(o, type) == \E i \in 1..Len(o) : o[i].type = type
HasCostFrame(o) == \E i \in 1..Len(o) : o[i].type = "system" /\ o[i].what = "cost"

\* the usage the billing of a finished turn must have worked with
ExpectedUsage(s) ==
    ensure_validity(IF s.reported THEN ReportedUsage ELSE NoUsage,
                    s.user_text, s.full_response)

(***************************************************************************)
(* C1.  Turns on several connections debit one wallet concurrently, each   *)
(* debit an UPDATE credits = credits - cost followed by its commit, in any *)
(* interleaving: every committed debit is applied, the balance is the      *)
(* initial balance minus the sum of the costs of the committed debits.     *)
(***************************************************************************)
C1_NoLostUpdate ==
    wallet.exists => wallet.credits = env.credits0 - TotalDebited

\* both connections have debited, and now one holds the row while the other
\* waits with its UPDATE
C1_Witness ==
    /\ rowLock = 1
    /\ h[2].pc = "debit"
    /\ Debits(1, 1) # {}
    /\ Debits(2, 1) # {}

(***************************************************************************)
(* C2.  With a healthy store, a turn in which at least one fragment was    *)
(* streamed ends with exactly one committed debit and exactly one          *)
(* persisted AI message, also when a content-frame send fails after        *)
(* streaming started; no turn is debited twice or gets two AI messages.    *)
(***************************************************************************)
C2_OneDebitOneMessage ==
    /\ \A e \in ledger : e.n = 1
    /\ \A m \in messages : m.n = 1
    /\ \A c \in env.conns :
         (TurnDone(c) /\ h[c].nchunks >= 1) =>
            /\ Cardinality(Debits(c, h[c].nframes)) = 1
            /\ Cardinality(AiMessages(c, h[c].nframes)) = 1

\* the client went away while a fragment was sent; the turn is billed and
\* saved, no cost frame goes out, the handler has left the loop
C2_Witness ==
    /\ TurnDone(1)
    /\ h[1].gen_end = "send_failed"
    /\ h[1].nchunks >= 1
    /\ h[1].pc = "closed"
    /\ ~HasCostFrame(h[1].out)
    /\ Cardinality(Debits(1, h[1].nframes)) = 1
    /\ Cardinality(AiMessages(1, h[1].nframes)) = 1

(***************************************************************************)
(* C3.  As the claim states it: after any turns in which store calls may   *)
(* fail and be rolled back, the total debited by chat turns equals the sum *)
(* of the costs of the persisted AI messages, and every persisted AI       *)
(* message carries the tokens and the cost of one usage.                   *)
(***************************************************************************)
C3_BillingIntegrity ==
    Quiescent =>
       /\ env.credits0 - wallet.credits = TotalDebited
       /\ TotalDebited = SumCosts({m \in messages : m.role = "ai"})
       /\ \A m \in messages :
            m.role = "ai" =>
               \E u \in [p : 0..ReportedUsage.p, c : 0..ReportedUsage.c] :
                  /\ m.tokens = total_tokens(u)
                  /\ m.cost = calculate_cost(u, m.model)

(***************************************************************************)
(* C4.  With a healthy store, a turn whose generation ends by the timeout, *)
(* by cancellation or by a backend exception after some text was           *)
(* accumulated is billed: a debit of the cost of the usage (reported, or   *)
(* estimated from the texts) is committed and applied, an AI message with  *)
(* exactly the accumulated text is persisted, and on timeout and backend   *)
(* error an error frame has reached a client that is still there.          *)
(***************************************************************************)
C4_InterruptedTurnIsBilled ==
    \A c \in env.conns :
       LET s == h[c]
           cost == calculate_cost(ExpectedUsage(s), s.selected_model)
       IN
       (/\ TurnDone(c)
        /\ s.gen_end \in {"timeout", "cancelled", "error"}
        /\ s.full_response # EmptyText) =>
          /\ \E e \in Debits(c, s.nframes) : e.amount = cost
          /\ wallet.credits = env.credits0 - TotalDebited
          /\ \E m \in AiMessages(c, s.nframes) :
               /\ m.content = s.full_response
               /\ m.cost = cost
               /\ m.tokens = total_tokens(ExpectedUsage(s))
          /\ (s.gen_end \in {"timeout", "error"} /\ clientUp[c]) =>
               HasFrameOfType(s.out, "error")

\* a timeout after one fragment, no usage reported: the estimate is billed
C4_Witness ==
    /\ TurnDone(1)
    /\ h[1].gen_end = "timeout"
    /\ h[1].nchunks = 1
    /\ ~h[1].reported
    /\ \E e \in Debits(1, h[1].nframes) : e.amount > 0
    /\ \E m \in AiMessages(1, h[1].nframes) : m.content = h[1].full_response

(***************************************************************************)
(* C5.  As the claim states it: a turn in which no fragment was produced   *)
(* and no usage was reported is a no-op: no debit, no AI message, no cost  *)
(* frame, and the handler is back at the receive loop.                     *)
(***************************************************************************)
C5_NoOpTurn ==
    \A c \in env.conns :
       LET s == h[c] IN
       (/\ TurnDone(c)
        /\ s.gen_end # "none"
        /\ s.nchunks = 0
        /\ ~s.reported) =>
          /\ Debits(c, s.nframes) = {}
          /\ AiMessages(c, s.nframes) = {}
          /\ ~HasCostFrame(s.out)
          /\ s.is_connected => s.pc = "recv"

(***************************************************************************)
(* C6.  As the claim states it: whenever a turn is under way before its    *)
(* billing (chat creation, routing, persistence, generation), the wallet   *)
(* balance is above 0, on the first turn of a connection and on the later  *)
(* ones.                                                                   *)
(***************************************************************************)
C6_TurnStartsWithCredit ==
    \A c \in env.conns :
       h[c].pc \in {"chat", "route", "persist", "history", "gen"} => wallet.credits > 0

(***************************************************************************)
(* C7.  With a healthy store, when the debit of a turn leaves the balance  *)
(* below 0, the debit is applied in full, a client that is still there has *)
(* got a warning frame and no error frame after it, the connection is not  *)
(* closed with a code, and a handler whose client is connected is back at  *)
(* the receive loop.                                                       *)
(***************************************************************************)
C7_SoftOverdraft ==
    \A c \in env.conns :
       LET s == h[c] IN
       (TurnDone(c) /\ Debits(c, s.nframes) # {} /\ wallet.credits < 0) =>
          /\ wallet.credits = env.credits0 - TotalDebited
          /\ clientUp[c] =>
               \E i \in 1..Len(s.out) :
                  /\ s.out[i] = SystemFrame("warning", 0)
                  /\ \A j \in i..Len(s.out) : s.out[j].type # "error"
          /\ s.closeCode = 0
          /\ s.is_connected => s.pc = "recv"

\* the second turn of a connection is under way on an overdrawn wallet
C7_Witness ==
    /\ h[1].pc = "gen"
    /\ h[1].nframes = 2
    /\ Debits(1, 1) # {}
    /\ wallet.credits < 0
    /\ h[1].closeCode = 0

(***************************************************************************)
(* C8.  A connection with a missing token, an invalid token, no wallet or  *)
(* a balance <= 0 is closed with code 1008 before the receive loop: it     *)
(* receives no frame, persists no chat and no message, makes no debit, and *)
(* in the wallet cases a client that is there gets an error frame first.   *)
(***************************************************************************)
C8_ConnectGate ==
    \A c \in env.conns :
       LET s == h[c] IN
       (/\ s.pc # "idle"
        /\ \/ s.token \in {"", "bad"}
           \/ ~env.wallet
           \/ env.credits0 <= 0) =>
          /\ s.pc = "closed"
          /\ s.closeCode = 1008
          /\ s.nframes = 0
          /\ chats = {} /\ messages = {} /\ ledger = {}
          /\ wallet.credits = env.credits0
          /\ (s.token = "good" /\ clientUp[c]) =>
               s.out = <<ErrorFrame("Insufficient credits.")>>
          /\ s.token # "good" => s.out = << >>

\* a valid token on a wallet at exactly 0 is turned away
C8_Witness ==
    /\ h[1].pc = "closed"
    /\ h[1].token = "good"
    /\ h[1].gate = "insufficient_credits"
    /\ env.wallet
    /\ env.credits0 = 0
    /\ h[1].closeCode = 1008

(***************************************************************************)
(* C9.  As the claim states it: after a malformed frame (no JSON, a JSON   *)
(* value that is no object, an object that violates the schema) the        *)
(* client has an error frame, the connection is not closed, nothing is     *)
(* persisted or debited for the frame, and the handler is back at the      *)
(* receive loop.                                                           *)
(***************************************************************************)
C9_MalformedFrameTolerated ==
    \A c \in env.conns :
       LET s == h[c] IN
       s.frame_kind \in {"invalid_json", "not_an_object", "schema_violation"} =>
          /\ s.out = <<ErrorFrame("Invalid message format")>>
          /\ s.closeCode = 0
          /\ s.is_connected => s.pc = "recv"
          /\ Debits(c, s.nframes) = {}
          /\ SavedFor(c, s.nframes) = {}

(***************************************************************************)
(* C10.  As the claim states it: no failure of a store call or a cache     *)
(* call inside the receive loop terminates the connection: a connection    *)
(* that has passed the gate is never closed with a code.                   *)
(***************************************************************************)
C10_FailuresNeverTerminate ==
    \A c \in env.conns : h[c].gate = "passed" => h[c].closeCode = 0

(***************************************************************************)
(* C11.  Frame order of a turn and a single turn in flight: the route      *)
(* frame precedes every content frame, every content frame precedes the    *)
(* cost frame, no content frame follows the cost frame or the timeout      *)
(* error frame of its turn, and the stream task runs only while the        *)
(* handler waits for it: no frame is received while it is running.         *)
(***************************************************************************)
IsRoute(f) == f.type = "system" /\ f.what = "route"
IsCost(f) == f.type = "system" /\ f.what = "cost"
IsContent(f) == f.type = "content"

C11_FrameOrder ==
    \A c \in env.conns :
       LET o == h[c].out IN
       /\ \A j \in 1..Len(o) :
            IsContent(o[j]) =>
               /\ \E i \in 1..(j - 1) : IsRoute(o[i])
               /\ \A i \in 1..(j - 1) :
                    ~IsCost(o[i]) /\ o[i] # ErrorFrame("Error: Timeout")
       /\ \A j \in 1..Len(o) : IsCost(o[j]) => \E i \in 1..(j - 1) : IsRoute(o[i])
       /\ h[c].task = "running" => h[c].pc = "gen"

\* the frames of a second turn: route, two content frames, cost
C11_Witness ==
    /\ h[1].nframes = 2
    /\ h[1].pc = "recv"
    /\ h[1].task = "done"
    /\ h[1].out = <<SystemFrame("route", 0), ContentFrame(1), ContentFrame(2),
                    SystemFrame("cost", h[1].total_cost)>>

(***************************************************************************)
(* C12.  For every usage and every pair of texts: after ensure_validity a  *)
(* field that was not 0 is unchanged, a field that was 0 is ceil(len/4) of *)
(* its text when the text is non-empty and 0 otherwise, the total is above *)
(* 0 when one of the texts is non-empty, and a second application changes  *)
(* nothing.                                                                *)
(***************************************************************************)
\* ceil(n / 4) without the operator of the model: the least k with 4k >= n
Ceil4(n) == CHOOSE k \in 0..n : 4 * k >= n /\ (k = 0 \/ 4 * (k - 1) < n)

C12_EnsureValidity ==
    (call.fn = "usage" /\ call.applied >= 1) =>
       LET np == Len(call.prompt_text)
           nc == Len(call.completion_text)
       IN
       /\ call.arg.p # 0 => call.usage.p = call.arg.p
       /\ call.arg.c # 0 => call.usage.c = call.arg.c
       /\ call.arg.p = 0 => call.usage.p = Ceil4(np)
       /\ call.arg.c = 0 => call.usage.c = Ceil4(nc)
       /\ (np > 0 \/ nc > 0) => total_tokens(call.usage) > 0
       /\ call.usage = call.once

\* nothing reported, a prompt of 5 characters and a completion of 1: after the
\* second application the usage is still 2 and 1
C12_Witness ==
    /\ call.fn = "usage"
    /\ call.applied = 2
    /\ call.arg = NoUsage
    /\ Len(call.prompt_text) = 5
    /\ Len(call.completion_text) = 1
    /\ call.usage = [p |-> 2, c |-> 1]

(***************************************************************************)
(* C13.  No billed turn costs 0: for every model id of every backend, the  *)
(* ids that fall back to a default tier included, and every usage and pair *)
(* of texts with a non-empty prompt or a non-empty completion, the cost    *)
(* computed past the validity check is above 0 after the rounding to 6     *)
(* decimal places, also when the backend reported nothing.                 *)
(***************************************************************************)
C13_CostAboveZero ==
    (/\ call.fn = "usage"
     /\ call.billed
     /\ Len(call.prompt_text) > 0 \/ Len(call.completion_text) > 0) =>
        call.cost > 0

\* nothing reported, a prompt of one character, no completion, on the cheapest
\* tier: one estimated prompt token costs 0.000006
C13_Witness ==
    /\ call.fn = "usage"
    /\ call.billed
    /\ call.arg = NoUsage
    /\ Len(call.prompt_text) = 1
    /\ call.completion_text = EmptyText
    /\ call.model = "gpt-5-mini"
    /\ call.cost = 6

(***************************************************************************)
(* C14.  calculate_cost is a pure, monotonic function of the two token     *)
(* counts and the model: the call leaves the usage as it was, the cost     *)
(* recorded for a call is the cost of its arguments, and for every model   *)
(* id one more prompt token or one more completion token never lowers the  *)
(* cost, rounding included.                                                *)
(***************************************************************************)
C14_CostMonotonic ==
    (call.fn = "usage" /\ call.billed) =>
       /\ call.usage = call.once
       /\ call.cost = calculate_cost(call.usage, call.model)
       /\ \A u \in Usages \cup {call.usage} :
            /\ calculate_cost([u EXCEPT !.p = @ + 1], call.model)
                  >= calculate_cost(u, call.model)
            /\ calculate_cost([u EXCEPT !.c = @ + 1], call.model)
                  >= calculate_cost(u, call.model)

\* 1 prompt and 2 completion tokens of gemini-2.5-pro: 1075.2 micro-credits,
\* rounded to 0.001075
C14_Witness ==
    /\ call.fn = "usage"
    /\ call.billed
    /\ call.model = "gemini-2.5-pro"
    /\ call.usage = [p |-> 1, c |-> 2]
    /\ call.cost = 1075

(***************************************************************************)
(* C15.  determine_model depends on the text and the preference only: a    *)
(* second call with the same arguments returns what the first returned; a  *)
(* preference that is neither missing, empty nor "auto" in any letter case *)
(* is returned unchanged whatever the scores and the length are; a         *)
(* missing, empty or "auto" preference gives what scoring gives.           *)
(***************************************************************************)
AutoPreferences == {"", "auto", "AUTO", "Auto"}

RoutedModels ==
    {"claude-4.5-opus", "gemini-2.5-pro", "gpt-5.2-pro", "gemini-3-flash-preview", "gpt-5.2"}

C15_PreferenceOverride ==
    (call.fn = "router" /\ call.calls >= 1) =>
       /\ call.preference \notin AutoPreferences => call.result = call.preference
       /\ call.preference \in AutoPreferences =>
            /\ call.result \in RoutedModels
            /\ call.result = determine_model_scored(call.scores, call.len, "auto")
       /\ call.result = call.first

\* a preference for a model no backend serves wins over a coding score and a
\* long text
C15_Witness ==
    /\ call.fn = "router"
    /\ call.calls = 2
    /\ call.preference = "llama-3"
    /\ call.scores.coding = MaxScore
    /\ call.len = 4001
    /\ call.result = "llama-3"

(***************************************************************************)
(* C16.  With preference "auto" the router returns the model of the first  *)
(* rule that matches, in the order coding, large context (data or a length *)
(* above 4000), reasoning, creative, short text (below 150), default; so   *)
(* equal non-zero coding and reasoning scores select the coding model and  *)
(* a text of 50 characters with all scores 0 the fast model.               *)
(***************************************************************************)
RuleCoding(s) ==
    s.coding > 0 /\ s.coding >= s.reasoning /\ s.coding >= s.creative /\ s.coding >= s.data

RuleLargeContext(s, len) ==
    (s.data > 0 /\ s.data >= s.reasoning /\ s.data >= s.creative) \/ len > 4000

RuleReasoning(s) ==
    s.reasoning > 0 /\ s.reasoning >= s.creative /\ s.reasoning >= s.data

C16_RuleOrder ==
    (call.fn = "router" /\ call.calls >= 1 /\ call.preference = "auto") =>
       LET s == call.scores
           n == call.len
           r == call.result
       IN
       /\ RuleCoding(s) => r = "claude-4.5-opus"
       /\ (~RuleCoding(s) /\ RuleLargeContext(s, n)) => r = "gemini-2.5-pro"
       /\ (~RuleCoding(s) /\ ~RuleLargeContext(s, n) /\ RuleReasoning(s)) => r = "gpt-5.2-pro"
       /\ (~RuleCoding(s) /\ ~RuleLargeContext(s, n) /\ ~RuleReasoning(s) /\ s.creative > 0) =>
             r = "gemini-2.5-pro"
       /\ (~RuleCoding(s) /\ ~RuleLargeContext(s, n) /\ ~RuleReasoning(s) /\ s.creative = 0) =>
             r = IF n < 150 THEN "gemini-3-flash-preview" ELSE "gpt-5.2"
       /\ (s.coding > 0 /\ s.coding = s.reasoning /\ s.creative = 0 /\ s.data = 0) =>
             r = "claude-4.5-opus"
       /\ (s = ZeroScores /\ n = 50) => r = "gemini-3-flash-preview"

\* coding and reasoning tie at 1 on a text of 4001 characters: the coding
\* rule is asked first
C16_Witness ==
    /\ call.fn = "router"
    /\ call.calls >= 1
    /\ call.preference = "auto"
    /\ call.scores = [coding |-> 1, reasoning |-> 1, creative |-> 0, data |-> 0]
    /\ call.len = 4001
    /\ call.result = "claude-4.5-opus"

(***************************************************************************)
(* C17.  Draining.  Once the send of a content frame has failed the        *)
(* connected flag is false and stays false, the stream task has ended, no  *)
(* fragment is accumulated or forwarded any more, no cost frame is sent,   *)
(* no frame is received any more, and when the handler has ended the turn  *)
(* has its one debit and its one AI message.                               *)
(***************************************************************************)
ContentFrames(o) == SelectSeq(o, IsContent)

Drained(c) ==
    LET s == h[c] IN
    s.gen_end = "send_failed" =>
       /\ ~s.is_connected
       /\ s.task = "done"
       /\ s.pc \in {"debit", "commit", "settle", "closed"}
       /\ ~HasCostFrame(s.out)
       /\ s.pc = "closed" =>
            /\ Cardinality(Debits(c, s.nframes)) = 1
            /\ Cardinality(AiMessages(c, s.nframes)) = 1

DrainingStep(c) ==
    /\ ~h[c].is_connected => ~h'[c].is_connected
    /\ h[c].gen_end = "send_failed" =>
         /\ h'[c].gen_end = "send_failed"
         /\ h'[c].nframes = h[c].nframes
         /\ h'[c].full_response = h[c].full_response
         /\ h'[c].nchunks = h[c].nchunks
         /\ ContentFrames(h'[c].out) = ContentFrames(h[c].out)

C17_Draining ==
    /\ [](\A c \in env.conns : Drained(c))
    /\ [][\A c \in env.conns : DrainingStep(c)]_vars

\* the send of the second fragment failed; the handler has billed the two
\* fragments, saved them and ended
C17_Witness ==
    /\ h[1].gen_end = "send_failed"
    /\ h[1].nchunks = 2
    /\ Len(ContentFrames(h[1].out)) = 1
    /\ h[1].pc = "closed"
    /\ \E m \in AiMessages(1, h[1].nframes) : m.content = h[1].full_response
    /\ Debits(1, h[1].nframes) # {}

(***************************************************************************)
(* C18.  No storage session is open while the handler waits for the        *)
(* stream: the session of chat creation, user message and history is       *)
(* released before the stream task is started, and the billing session is  *)
(* opened only after the generation has ended.                             *)
(***************************************************************************)
C18_NoSessionAcrossGeneration ==
    \A c \in env.conns :
       LET s == h[c] IN
       /\ (s.pc = "gen" \/ s.task = "running") => s.db = "closed"
       /\ s.db = "turn" => s.pc \in {"chat", "route", "persist", "history"} /\ s.task = "none"
       /\ s.db = "billing" =>
            /\ s.pc \in {"debit", "commit", "settle"}
            /\ s.task \in {"done", "cancelled"}
            /\ s.gen_end # "none"

\* the handler waits for the stream of its second turn, one fragment has
\* come, no session is open
C18_Witness ==
    /\ h[1].pc = "gen"
    /\ h[1].task = "running"
    /\ h[1].nframes = 2
    /\ h[1].nchunks = 1
    /\ h[1].db = "closed"

(***************************************************************************)
(* C19.  Every chat the gateway has created has at least one persisted     *)
(* message, whenever no handler is in the middle of a turn; this covers a  *)
(* chat whose chat_id or route frame could not be sent and a chat whose    *)
(* first user message could not be committed.                              *)
(***************************************************************************)
C19_ChatHasMessage ==
    Quiescent => \A ch \in chats : \E m \in messages : m.chat = ch.id

(***************************************************************************)
(* A connection that may resume a chat.  The store holds one chat of the   *)
(* user with OldTurns billed turns of an earlier connection; its cache     *)
(* list still holds them, or has expired.  The client names that chat in   *)
(* the chat_id parameter, names a chat that does not exist, or names none. *)
(***************************************************************************)
OldTurns == 5

ResumedChat == NumConns

OldMessage(k, role, content) ==
    [chat |-> ResumedChat, role |-> role, conn |-> 0, turn |-> k - OldTurns,
     content |-> content, model |-> "gpt-5.2", cost |-> 0, tokens |-> 0, n |-> 1]

OldMessages ==
    {OldMessage(k, "user", <<"h", "i">>) : k \in 1..OldTurns}
        \cup {OldMessage(k, "ai", <<"a">>) : k \in 1..OldTurns}

\* what add_message left in the list, turn by turn
OldCache ==
    [i \in 1..(2 * OldTurns) |->
        IF i % 2 = 1
        THEN WrittenBy(CacheEntry("user", <<"h", "i">>), 0, (i + 1) \div 2 - OldTurns)
        ELSE CacheEntry("ai", <<"a">>)]

InitResume ==
    /\ env \in {[e EXCEPT !.chat_id = id] : e \in Env(FALSE, {1}, "rich"), id \in {0} \cup Conns}
    /\ wallet = [exists |-> env.wallet, credits |-> env.credits0]
    /\ rowLock = 0
    /\ chats = {[id |-> ResumedChat, owner |-> UserId]}
    /\ messages = OldMessages
    /\ ledger = {}
    /\ cache \in {[c \in ChatIds |-> IF c = ResumedChat THEN list ELSE << >>] :
                    list \in {<< >>, OldCache}}
    /\ clientUp = [c \in Conns |-> TRUE]
    /\ nfaults = 0
    /\ h = [c \in Conns |-> InitHandler]
    /\ call = NoCall

SpecResume == InitResume /\ [][Next]_vars

SameChatFrames == 1

InitSameChat ==
    /\ env \in {[e EXCEPT !.chat_id = id, !.max_frames = SameChatFrames] :
                  e \in Env(FALSE, Conns, "plain"), id \in {0, ResumedChat}}
    /\ wallet = [exists |-> env.wallet, credits |-> env.credits0]
    /\ rowLock = 0
    /\ chats = {[id |-> ResumedChat, owner |-> UserId]}
    /\ messages = OldMessages
    /\ ledger = {}
    /\ cache = [c \in ChatIds |-> IF c = ResumedChat THEN OldCache ELSE << >>]
    /\ clientUp = [c \in Conns |-> TRUE]
    /\ nfaults = 0
    /\ h = [c \in Conns |-> InitHandler]
    /\ call = NoCall

SpecSameChat == InitSameChat /\ [][NextConcurrent]_vars

(***************************************************************************)
(* C22.  Deduplication: the context handed to the provider ends with one   *)
(* entry for the current user turn, which carries the attachments          *)
(* resolved from the blob store, and no other entry of the context was     *)
(* written by the current turn.                                            *)
(***************************************************************************)
C22_Deduplication ==
    \A c \in env.conns :
       LET s == h[c]
           ctx == s.conversation_history
           n == Len(ctx)
       IN  s.pc = "gen" =>
              /\ n >= 1
              /\ ctx[n] = [role |-> "user", content |-> s.user_text,
                           attachments |-> s.llm_attachments, by |-> <<c, s.nframes>>]
              /\ \A i \in 1..(n - 1) : ctx[i].by # <<c, s.nframes>>

(***************************************************************************)
(* A connection whose chat_id parameter is absent, malformed, unknown, a   *)
(* chat of the user, or a chat of another user.                            *)
(***************************************************************************)
OtherUser == "u2"

ForeignChat == NumConns + 1

\* an id no chat has
UnknownChat == NumConns + 2

\* a chat_id that uuid.UUID rejects (ValueError, line 270)
MalformedChat == 0 - 1

ForeignMessages ==
    {[chat |-> ForeignChat, role |-> "user", conn |-> 0, turn |-> 0,
      content |-> <<"h", "i">>, model |-> "gpt-5.2", cost |-> 0, tokens |-> 0, n |-> 1]}

InitOwnership ==
    /\ env \in {[e EXCEPT !.chat_id = id] :
                  e \in Env(FALSE, {1}, "attach"),
                  id \in {0, MalformedChat, UnknownChat, ResumedChat, ForeignChat}}
    /\ wallet = [exists |-> env.wallet, credits |-> env.credits0]
    /\ rowLock = 0
    /\ chats = {[id |-> ResumedChat, owner |-> UserId],
                [id |-> ForeignChat, owner |-> OtherUser]}
    /\ messages = OldMessages \cup ForeignMessages
    /\ ledger = {}
    /\ cache = [c \in ChatIds |->
                  CASE c = ResumedChat -> OldCache
                    [] c = ForeignChat -> <<CacheEntry("user", <<"h", "i">>)>>
                    [] OTHER -> << >>]
    /\ clientUp = [c \in Conns |-> TRUE]
    /\ nfaults = 0
    /\ h = [c \in Conns |-> InitHandler]
    /\ call = NoCall

SpecOwnership == InitOwnership /\ [][Next]_vars

Owner(id) == {ch.owner : ch \in {x \in chats : x.id = id}}

(***************************************************************************)
(* C23.  Thread ownership: the handler works on a chat only if the         *)
(* authenticated user owns it; with a chat_id that names a chat of the     *)
(* user it works on that chat, with one that is malformed, unknown or      *)
(* names a chat of another user it works on a chat it created itself; and  *)
(* every message the gateway persists is in a chat of the authenticated    *)
(* user.                                                                   *)
(***************************************************************************)
C23_ThreadOwnership ==
    /\ \A c \in env.conns :
          LET id == h[c].current_chat_id IN
          id # 0 =>
             /\ Owner(id) = {UserId}
             /\ id = IF env.chat_id = ResumedChat THEN ResumedChat ELSE c
    /\ \A m \in messages : m.conn # 0 => Owner(m.chat) = {UserId}
    /\ {m \in messages : m.chat = ForeignChat} = ForeignMessages
    /\ cache[ForeignChat] = <<CacheEntry("user", <<"h", "i">>)>>

\* the chat_id names a chat of another user: the first turn created a chat
\* of the authenticated user and its user message is in that chat
C23_Witness ==
    /\ env.chat_id = ForeignChat
    /\ h[1].current_chat_id = 1
    /\ [id |-> 1, owner |-> UserId] \in chats
    /\ \E m \in messages : m.conn = 1 /\ m.chat = 1

(***************************************************************************)
(* C24.  A model name with none of the vendor prefixes is refused by the   *)
(* registry, and a turn routed to such a name never starts a stream task,  *)
(* receives no fragment and debits nothing: the handler ends with the      *)
(* wallet as it was.                                                       *)
(***************************************************************************)
C24_UnsupportedModel ==
    /\ \A m \in UnknownModels : get_provider(m) = "none"
    /\ \A c \in env.conns :
          LET s == h[c] IN
          s.selected_model \in UnknownModels =>
             /\ s.pc \in {"persist", "history", "closed"}
             /\ s.task = "none"
             /\ s.nchunks = 0
             /\ s.full_response = EmptyText
             /\ Debits(c, s.nframes) = {}
             /\ AiMessages(c, s.nframes) = {}
             /\ wallet.credits = env.credits0
             /\ ~HasCostFrame(s.out)

\* a turn with the preference llama-3 has ended at the provider lookup: the
\* user message is saved, the handler is closed with 1011, nothing is debited
C24_Witness ==
    /\ h[1].selected_model = "llama-3"
    /\ h[1].pc = "closed"
    /\ h[1].closeCode = 1011
    /\ h[1].store_queried = FALSE
    /\ h[1].conversation_history # << >>
    /\ SavedFor(1, 1) # {}
    /\ ledger = {}

(***************************************************************************)
(* C25.  A received frame whose type is not "user_message" is ignored,     *)
(* whether or not it carries a content field: nothing is sent in           *)
(* response, nothing is persisted or debited, the connection is not        *)
(* closed and the handler is back at the receive loop.                     *)
(***************************************************************************)
C25_OtherTypeIgnored ==
    \A c \in env.conns :
       LET s == h[c] IN
       s.frame_type \notin {"", "user_message"} =>
          /\ s.out = << >>
          /\ s.closeCode = 0
          /\ s.is_connected => s.pc = "recv"
          /\ Debits(c, s.nframes) = {}
          /\ SavedFor(c, s.nframes) = {}

(***************************************************************************)
(* Payment reconciliation (api/v1/endpoints/payments.py,                   *)
(* handle_checkout_completed): NumNotifications checkout-completed         *)
(* notifications for one checkout session, each handled in a session of    *)
(* its own.  call holds the transaction row's status and each              *)
(* notification's position and locals; the wallet row and its lock are     *)
(* the gateway's.                                                          *)
(***************************************************************************)
NumNotifications == 3

Notifications == 1..NumNotifications

\* metadata["credits"] of the session, in micro-credits
PackageCredits == {100, 500}

InitPayments ==
    /\ env \in {[faults |-> FALSE, conns |-> {}, frames |-> "plain",
                 wallet |-> TRUE, credits0 |-> c] : c \in InitCredits}
    /\ InitShared
    /\ call \in {[fn |-> "payments", metadata |-> md, credits |-> x,
                  status0 |-> st, status |-> st,
                  pc |-> [n \in Notifications |-> "start"],
                  record_status |-> [n \in Notifications |-> "none"],
                  wallet_credits |-> [n \in Notifications |-> 0],
                  commits |-> 0] :
                    md \in BOOLEAN, x \in PackageCredits,
                    st \in {"none", "pending", "completed"}}

\* lines 116-133: metadata, the transaction row is read without a lock; the
\* notification returns when there is no row or the row is completed
ReadTransaction(n) ==
    /\ call.fn = "payments"
    /\ call.pc[n] = "start"
    /\ call' = [call EXCEPT
                  !.record_status[n] = IF call.metadata THEN call.status ELSE "none",
                  !.pc[n] = IF call.metadata /\ call.status = "pending"
                            THEN "lock" ELSE "done"]
    /\ UNCHANGED <<env, wallet, rowLock, chats, messages, ledger, cache, clientUp, nfaults, h>>

\* lines 135-146: SELECT ... FOR UPDATE waits for the row's lock and returns
\* the committed balance
LockWallet(n) ==
    /\ call.fn = "payments"
    /\ call.pc[n] = "lock"
    /\ rowLock = 0
    /\ rowLock' = n
    /\ call' = [call EXCEPT !.wallet_credits[n] = wallet.credits + call.credits,
                            !.pc[n] = "commit"]
    /\ UNCHANGED <<env, wallet, chats, messages, ledger, cache, clientUp, nfaults, h>>

\* lines 147-152: the balance and status "completed" are written and committed
CommitCredit(n) ==
    /\ call.fn = "payments"
    /\ call.pc[n] = "commit"
    /\ wallet' = [wallet EXCEPT !.credits = call.wallet_credits[n]]
    /\ rowLock' = 0
    /\ call' = [call EXCEPT !.status = "completed", !.pc[n] = "done",
                            !.commits = @ + 1]
    /\ UNCHANGED <<env, chats, messages, ledger, cache, clientUp, nfaults, h>>

NextPayments ==
    \E n \in Notifications :
        \/ ReadTransaction(n)
        \/ LockWallet(n)
        \/ CommitCredit(n)

SpecPayments == InitPayments /\ [][NextPayments]_vars

(***************************************************************************)
(* C26.  Payment reconciliation serializes against duplicate completion    *)
(* notifications: however the notifications for one pending checkout       *)
(* session interleave, the wallet is never credited more than once, and    *)
(* when all of them are through the wallet holds its balance plus the      *)
(* package's credits and the transaction is completed.                     *)
(***************************************************************************)
C26_CreditedOnce ==
    (call.fn = "payments" /\ call.status0 = "pending" /\ call.metadata) =>
       /\ wallet.credits \in {env.credits0, env.credits0 + call.credits}
       /\ (\A n \in Notifications : call.pc[n] = "done") =>
             /\ wallet.credits = env.credits0 + call.credits
             /\ call.status = "completed"

(***************************************************************************)
(* Context translation (services/llm/*_adapter.py): the context, a list of *)
(* ChatMessage, becomes the backend's request.  A request message is a     *)
(* role and a list of parts; "of" is a history variable, the index of the  *)
(* context entry the message was built from.                               *)
(***************************************************************************)
MaxContext == 2

TextAttachment == [type |-> "text", content |-> <<"t">>]
ImageAttachment == [type |-> "image", content |-> <<"i">>]

AttachmentLists ==
    {<< >>, <<TextAttachment>>, <<ImageAttachment>>, <<ImageAttachment, TextAttachment>>}

ChatMessages ==
    {[role |-> r, content |-> t, attachments |-> a, by |-> NoTurn] :
        r \in {"system", "user", "ai"}, t \in UserTexts, a \in AttachmentLists}

Prompts == UNION {[1..n -> ChatMessages] : n \in 1..MaxContext}

Part(kind, data) == [kind |-> kind, data |-> data]

RequestMessage(role, parts, of) == [role |-> role, parts |-> parts, of |-> of]

NoRequest == [system |-> << >>, messages |-> << >>]

\* OpenAIAdapter._to_openai_messages: role and joined text of every item
RECURSIVE _to_openai_messages(_, _)
_to_openai_messages(prompt, i) ==
    IF i > Len(prompt) THEN NoRequest
    ELSE LET item == prompt[i]
             role == IF item.role = "ai" THEN "assistant" ELSE item.role
             rest == _to_openai_messages(prompt, i + 1)
         IN  [rest EXCEPT !.messages =
                 <<RequestMessage(role, <<Part("text", item.content)>>, i)>> \o @]

\* lines 68-82 of claude_adapter.py: the attachments of an item as blocks
RECURSIVE ClaudeBlocks(_)
ClaudeBlocks(atts) ==
    IF atts = << >> THEN << >>
    ELSE LET att == Head(atts) IN
         (IF att.type = "image" THEN <<Part("image", att.content)>>
          ELSE IF att.type = "text" THEN <<Part("file_context", att.content)>>
          ELSE << >>) \o ClaudeBlocks(Tail(atts))

\* ClaudeAdapter._prepare_claude_request
RECURSIVE _prepare_claude_request(_, _)
_prepare_claude_request(prompt, i) ==
    IF i > Len(prompt) THEN NoRequest
    ELSE LET item == prompt[i]
             content_blocks == ClaudeBlocks(item.attachments)
                                 \o (IF item.content # EmptyText
                                     THEN <<Part("text", item.content)>> ELSE << >>)
             rest == _prepare_claude_request(prompt, i + 1)
         IN  IF item.role = "system"
             THEN [rest EXCEPT !.system =
                      SelectSeq(content_blocks, LAMBDA b : b.kind \in {"text", "file_context"})
                         \o @]
             ELSE IF content_blocks = << >> THEN rest
             ELSE [rest EXCEPT !.messages =
                      <<RequestMessage(IF item.role = "user" THEN "user" ELSE "assistant",
                                       content_blocks, i)>> \o @]

\* lines 88-100 of gemini_adapter.py: the attachments of an item as parts
RECURSIVE GeminiParts(_)
GeminiParts(atts) ==
    IF atts = << >> THEN << >>
    ELSE LET att == Head(atts) IN
         (IF att.type = "text" THEN <<Part("attachment_text", att.content)>>
          ELSE IF att.type = "image" THEN <<Part("image", att.content)>>
          ELSE << >>) \o GeminiParts(Tail(atts))

\* GeminiAdapter._prepare_gemini_request
RECURSIVE _prepare_gemini_request(_, _)
_prepare_gemini_request(prompt, i) ==
    IF i > Len(prompt) THEN NoRequest
    ELSE LET item == prompt[i]
             parts == (IF item.content # EmptyText
                       THEN <<Part("text", item.content)>> ELSE << >>)
                         \o GeminiParts(item.attachments)
             rest == _prepare_gemini_request(prompt, i + 1)
         IN  IF item.role = "system"
             THEN [rest EXCEPT !.system =
                      SelectSeq(parts, LAMBDA p : p.kind \in {"text", "attachment_text"})
                         \o @]
             ELSE IF parts = << >> THEN rest
             ELSE [rest EXCEPT !.messages =
                      <<RequestMessage(IF item.role = "user" THEN "user" ELSE "model",
                                       parts, i)>> \o @]

Backends == {"openai", "claude", "gemini"}

InitTranslate ==
    /\ NoGateway
    /\ call \in {[fn |-> "translate", backend |-> b, prompt |-> p,
                  done |-> FALSE, request |-> NoRequest] :
                    b \in Backends, p \in Prompts}

\* the first statement of generate_stream
ApplyTranslate ==
    /\ call.fn = "translate"
    /\ ~call.done
    /\ call' = [call EXCEPT
                  !.done = TRUE,
                  !.request =
                     CASE call.backend = "openai" -> _to_openai_messages(call.prompt, 1)
                       [] call.backend = "claude" -> _prepare_claude_request(call.prompt, 1)
                       [] OTHER -> _prepare_gemini_request(call.prompt, 1)]
    /\ UNCHANGED <<env, wallet, rowLock, chats, messages, ledger, cache, clientUp, nfaults, h>>

\* a second translation of the same context gives the same request
RepeatTranslate ==
    /\ call.fn = "translate"
    /\ call.done
    /\ call' = [call EXCEPT !.done = FALSE, !.request = NoRequest]
    /\ UNCHANGED <<env, wallet, rowLock, chats, messages, ledger, cache, clientUp, nfaults, h>>

NextTranslate == ApplyTranslate \/ RepeatTranslate

SpecTranslate == InitTranslate /\ [][NextTranslate]_vars

\* the part kinds that carry an attachment of a type
KindsOf(type) ==
    IF type = "image" THEN {"image"} ELSE {"file_context", "attachment_text"}

\* the backend's name of a role
NativeRole(backend, role) ==
    IF role = "ai" THEN (IF backend = "gemini" THEN "model" ELSE "assistant") ELSE role

(***************************************************************************)
(* C27.  Context translation keeps attachments for every backend: every    *)
(* text and image attachment of a user turn is a part of the request       *)
(* message built from that turn, text as a delimited block and image in    *)
(* the encoded-image form, and the request messages keep the order and     *)
(* the mapped role of their turns.                                         *)
(***************************************************************************)
C27_AttachmentsKept ==
    (call.fn = "translate" /\ call.done) =>
       LET prompt == call.prompt
           msgs == call.request.messages
       IN
       /\ \A i \in 1..Len(prompt) :
             (prompt[i].role = "user" /\ prompt[i].attachments # << >>) =>
                \E j \in 1..Len(msgs) :
                   /\ msgs[j].of = i
                   /\ \A k \in 1..Len(prompt[i].attachments) :
                         \E p \in 1..Len(msgs[j].parts) :
                            /\ msgs[j].parts[p].kind \in KindsOf(prompt[i].attachments[k].type)
                            /\ msgs[j].parts[p].data = prompt[i].attachments[k].content
       /\ \A j \in 1..Len(msgs) :
             /\ msgs[j].role = NativeRole(call.backend, prompt[msgs[j].of].role)
             /\ j > 1 => msgs[j - 1].of < msgs[j].of

(***************************************************************************)
(* C28.  A cost frame tells a committed debit: whenever the frames of a    *)
(* turn hold a system/cost frame with payload v, the ledger holds one      *)
(* debit of that turn and its amount is v; a turn whose debit statement    *)
(* or debit commit failed has no cost frame.                               *)
(***************************************************************************)
C28_CostFrameMeansDebit ==
    \A c \in env.conns :
       LET o == h[c].out IN
       \A i \in 1..Len(o) :
          IsCost(o[i]) =>
             /\ Cardinality(Debits(c, h[c].nframes)) = 1
             /\ \A e \in Debits(c, h[c].nframes) : e.amount = o[i].v

\* self.pricing of the adapter the registry returns for a vendor family
PricingTable(provider) ==
    CASE provider = "openai" -> OpenAIModels
      [] provider = "gemini" -> GeminiModels
      [] provider = "claude" -> ClaudeModels
      [] OTHER -> {}

(***************************************************************************)
(* C29.  With the preference "auto" (or none), the model id the router     *)
(* returns is resolved by the registry, and the pricing table of the       *)
(* resolved backend lists it: an auto-routed turn is never refused as      *)
(* unsupported and never billed at a fallback tier.                        *)
(***************************************************************************)
C29_RoutedModelsListed ==
    (call.fn = "router" /\ call.calls >= 1 /\ call.preference \in AutoPreferences) =>
       /\ get_provider(call.result) # "none"
       /\ call.result \in PricingTable(get_provider(call.result))

\* no pattern matches a text of 150 characters: the default model, gpt-5.2
C29_Witness ==
    /\ call.fn = "router"
    /\ call.calls >= 1
    /\ call.preference = "AUTO"
    /\ call.scores = ZeroScores
    /\ call.len = 150
    /\ call.result = "gpt-5.2"

(***************************************************************************)
(* One connection whose client stays connected and whose handler task is   *)
(* not cancelled.  Fairness: the receive returns while the client has      *)
(* frames to send, the backend yields, ends or fails or the timeout of     *)
(* wait_for fires, and every store and cache call returns.                 *)
(***************************************************************************)
NextLive ==
    \E c \in Conns :
        \/ Connect(c)
        \/ Receive(c)
        \/ CreateChat(c)
        \/ Route(c)
        \/ PersistUser(c)
        \/ FetchHistory(c)
        \/ GenChunk(c)
        \/ GenEnd(c)
        \/ GenTimeout(c)
        \/ GenError(c)
        \/ DebitExecute(c)
        \/ DebitCommit(c)
        \/ Settle(c)

SpecLive == Init /\ [][NextLive]_vars /\ WF_vars(NextLive)

\* the handler is inside the turn of a user_message frame
InTurn(c) ==
    h[c].pc \in {"chat", "route", "persist", "history", "gen", "debit", "commit", "settle"}

\* the handler is through with its frame number t
TurnEnded(c, t) == h[c].nframes = t /\ h[c].pc \in {"recv", "closed"}

\* the client has a cost frame or an error frame of the turn
Answered(c) == HasCostFrame(h[c].out) \/ HasFrameOfType(h[c].out, "error")

\* lines 486-489: nothing produced, no usage; nothing billed, nothing saved
SilentNoOp(c) ==
    /\ h[c].pc = "recv"
    /\ IsBlank(h[c].full_response)
    /\ total_tokens(h[c].usage) = 0
    /\ Debits(c, h[c].nframes) = {}
    /\ AiMessages(c, h[c].nframes) = {}

(***************************************************************************)
(* C30, as the claim states it.  Every turn gets an answer: a turn of a    *)
(* connected client ends, before the next frame is received, with a cost   *)
(* frame or an error frame of that turn.                                   *)
(***************************************************************************)
C30_EveryTurnAnswered ==
    \A c \in Conns, t \in 1..MaxFrames :
       (InTurn(c) /\ h[c].nframes = t) ~> (TurnEnded(c, t) /\ Answered(c))

(***************************************************************************)
(* C30, amended.  Every turn ends: a turn of a connected client ends,      *)
(* before the next frame is received, with a cost frame or an error frame  *)
(* of that turn, or as a no-op turn (nothing produced, no usage) without   *)
(* any frame, or with the handler closing the connection with code 1011.   *)
(***************************************************************************)
C30_EveryTurnEnds ==
    \A c \in Conns, t \in 1..MaxFrames :
       (InTurn(c) /\ h[c].nframes = t) ~>
          (TurnEnded(c, t) /\ (Answered(c) \/ SilentNoOp(c) \/ h[c].closeCode = 1011))

\* the second turn ended as a no-op turn: the handler is at the receive loop
\* and the client has neither a cost frame nor an error frame
C30_Witness ==
    /\ h[1].nframes = 2
    /\ h[1].frame_kind = "user_message"
    /\ h[1].gen_end = "done"
    /\ SilentNoOp(1)
    /\ ~Answered(1)
    /\ clientUp[1]

=============================================================================
